---------------------------- MODULE Spec2Model ----------------------------
(***************************************************************************)
(* A model of libterminal's text selection (terminal::Selector) over a     *)
(* terminal grid with scrollback.                                          *)
(*                                                                         *)
(* The grid is a sequence of lines, the oldest history line first; the     *)
(* line with LineOffset 0 is the top line of the page and negative         *)
(* offsets address the history.  The selector holds the fields of          *)
(* Selector.h: state_, mode_, totalRowCount_, start_, from_ and to_.       *)
(***************************************************************************)
EXTENDS Integers, Sequences, FiniteSets, TLC

\* ------------------------------------------------------------------ bounds
\* Number of columns of the page (ColumnCount).
Columns == 3
\* Number of lines of the page (LineCount of the PageSize).
PageLines == 2
\* Largest number of history lines a grid holds (maxHistoryLineCount).
MaxHistory == 1

VARIABLES
    grid,            \* Seq of lines [cells, wrapped], oldest history line first
    state_,          \* Selector::state_
    mode_,           \* Selector::mode_
    totalRowCount_,  \* Selector::totalRowCount_, taken at construction
    start_,          \* Selector::start_  (the anchor)
    from_,           \* Selector::from_
    to_,             \* Selector::to_
    extendArg,       \* the coordinate the latest extend() call worked on, or a mark
    aborted,         \* the process was aborted by a failed assert()
    compactCell,     \* a CompactCell of the grid's write path
    loop             \* the loop of a selector operation that is being run

vars == <<grid, state_, mode_, totalRowCount_, start_, from_, to_, extendArg, aborted, compactCell, loop>>

\* ------------------------------------------------------------- primitives
Modes == {"Linear", "LinearWordWise", "FullLine", "Rectangular"}
States == {"Waiting", "InProgress", "Complete"}

Coordinate(l, c) == [line |-> l, column |-> c]

\* extendArg before the first extend() call.
NoCoord == [line |-> 0, column |-> 0 - 1]

\* extendArg in a specification that records only whether extend() was
\* called: before the first call, and after it.
NotExtended == [line |-> 0, column |-> 0 - 2]
Extended == [line |-> 0, column |-> 0 - 3]

\* operator< of Coordinate: the line first, then the column.
CoordLess(a, b) ==
    \/ a.line < b.line
    \/ a.line = b.line /\ a.column < b.column

CoordGreater(a, b) == CoordLess(b, a)

\* crispy::ascending(a, b, c) on scalars.
ascending(a, b, c) == a <= b /\ b <= c

\* crispy::ascending(a, b, c) on coordinates.
ascendingCoord(a, b, c) == ~CoordLess(b, a) /\ ~CoordLess(c, b)

\* std::clamp
clamp(v, lo, hi) == IF v < lo THEN lo ELSE IF hi < v THEN hi ELSE v

\* ------------------------------------------------------------------ cells
\* A cell as the selector sees it: its primary codepoint and its width.
EmptyCell == [codepoint |-> 0, width |-> 1]
LetterCell == [codepoint |-> 97, width |-> 1]
CommaCell == [codepoint |-> 44, width |-> 1]
WideCell == [codepoint |-> 20013, width |-> 2]

\* The word delimiters the selector is constructed with (U"," in the tests).
wordDelimiters_ == {44}

\* CompactCell::codepointCount, for a cell without continuation codepoints.
codepointCount(cell) == IF cell.codepoint # 0 THEN 1 ELSE 0

\* CompactCell::empty: no codepoints (and no image fragment).
empty(cell) == codepointCount(cell) = 0

\* ------------------------------------------------------------------- grid
historyLineCount == Len(grid) - PageLines

LineOffsets == (0 - historyLineCount) .. (PageLines - 1)

lineAt(l) == grid[l + historyLineCount + 1]

InGrid(l, c) == l \in LineOffsets /\ c \in 0 .. (Columns - 1)

\* Screen::isLineWrapped, as handed to the selector: a total predicate.
wrapped_(l) == l \in LineOffsets /\ lineAt(l).wrapped

\* The cell accessor handed to the selector: nullptr outside the grid.
CellPresent(coord) == InGrid(coord.line, coord.column)

at(coord) == lineAt(coord.line).cells[coord.column + 1]

\* Selector::columnCount_
columnCount_ == Columns


\* --------------------------------------------------------------- selector
\* The selector object: the fields the operations read and write.
Selector(state, mode, total, start, from, to) ==
    [state |-> state, mode |-> mode, totalRowCount |-> total,
     start |-> start, from |-> from, to |-> to]

\* Selector::swapDirection
swapDirection(s) == [s EXCEPT !.from = s.to, !.to = s.from]

\* Bind(v, Op) is Op(v), with v evaluated once.
Bind(v, Op(_)) == CHOOSE r \in {Op(x) : x \in {v}} : TRUE

RECURSIVE stretchEmpty(_)
\* The while loop of Selector::stretchedColumn.
stretchEmpty(stretched) ==
    IF stretched.column < columnCount_
    THEN IF CellPresent(stretched)
         THEN IF empty(at(stretched))
              THEN Bind([stretched EXCEPT !.column = @ + 1], stretchEmpty)
              ELSE IF at(stretched).width > 1
                   THEN [stretched EXCEPT !.column = @ + (at(stretched).width - 1)]
                   ELSE stretched
         ELSE stretched
    ELSE stretched

\* stretchedColumn that leaves a wide cell's coordinate on its head.
stretchedColumnOnHead(coord) ==
    IF CellPresent(coord) /\ at(coord).width > 1
    THEN coord
    ELSE stretchEmpty(coord)

\* Selector::stretchedColumn
stretchedColumn(coord) ==
    IF CellPresent(coord) /\ at(coord).width > 1
    THEN [coord EXCEPT !.column = @ + (at(coord).width - 1)]
    ELSE stretchEmpty(coord)

\* The lambda isWordDelimiterAt of extendSelectionBackward/Forward.
isWordDelimiterAt(coord) ==
    \/ ~CellPresent(coord)
    \/ empty(at(coord))
    \/ at(coord).codepoint \in wordDelimiters_

RECURSIVE backwardLoop(_, _)
\* The for (;;) loop of Selector::extendSelectionBackward; yields `last`.
backwardLoop(current, last) ==
    LET wrapIntoPreviousLine ==
            current.column = 1 /\ current.line > 0 /\ wrapped_(current.line)
        Visit(next) ==
            IF isWordDelimiterAt(next) THEN last ELSE backwardLoop(next, next)
    IN  IF current.column > 1
        THEN Bind([current EXCEPT !.column = @ - 1], Visit)
        ELSE IF current.line > 0 \/ wrapIntoPreviousLine
        THEN Bind(Coordinate(current.line - 1, columnCount_), Visit)
        ELSE last

\* Selector::extendSelectionBackward
extendSelectionBackward(s) ==
    Bind(backwardLoop(s.to, s.to),
         LAMBDA last : IF CoordLess(s.to, s.from)
                       THEN [swapDirection(s) EXCEPT !.to = last]
                       ELSE [s EXCEPT !.to = last])

RECURSIVE forwardLoop(_, _, _)
\* The for (;;) loop of Selector::extendSelectionForward; yields `last`.
forwardLoop(total, current, last) ==
    LET Visit(next) ==
            IF isWordDelimiterAt(next) THEN last ELSE forwardLoop(total, next, next)
        Advance(entered) ==
            IF entered.column < columnCount_
            THEN Bind(stretchedColumn(Coordinate(entered.line, entered.column + 1)), Visit)
            ELSE IF entered.line < total
            THEN Bind(Coordinate(entered.line + 1, 0), Visit)
            ELSE last
    IN  IF /\ current.column = columnCount_
           /\ current.line + 1 < total
           /\ wrapped_(current.line + 1)
        THEN Bind(stretchedColumn(Coordinate(current.line + 1, 0 + 1)), Advance)
        ELSE Advance(current)

\* Selector::extendSelectionForward
extendSelectionForward(s) ==
    Bind(stretchedColumn(forwardLoop(s.totalRowCount, s.to, s.to)),
         LAMBDA stretched : [s EXCEPT !.to = stretched])

RECURSIVE walkForward(_, _)
\* while (line + 1 < limit && wrapped_(line + 1)) line++;  yields the line.
walkForward(line, limit) ==
    IF line + 1 < limit /\ wrapped_(line + 1)
    THEN walkForward(line + 1, limit)
    ELSE line

RECURSIVE walkBackward(_)
\* while (line > 0 && wrapped_(line)) line--;  yields the line.
walkBackward(line) ==
    IF line > 0 /\ wrapped_(line) THEN walkBackward(line - 1) ELSE line

\* The switch of extend() whose backward branch walks on from the previous
\* `to` instead of from the coordinate.
extendByModeStale(t, coord) ==
    CASE t.mode = "FullLine" ->
             IF CoordGreater(coord, t.start)
             THEN [t EXCEPT !.to = Coordinate(walkForward(coord.line, t.totalRowCount),
                                              coord.column)]
             ELSE IF CoordLess(coord, t.start)
             THEN [t EXCEPT !.from = Coordinate(walkBackward(coord.line), coord.column)]
             ELSE t
      [] t.mode = "Linear" ->
             [t EXCEPT !.to = stretchedColumn(coord)]
      [] OTHER ->
             IF CoordGreater(coord, t.start)
             THEN Bind([t EXCEPT !.to = coord], extendSelectionForward)
             ELSE Bind(extendSelectionBackward(t),
                       LAMBDA t2 :
                  Bind([swapDirection(t2) EXCEPT !.to = t.start],
                       extendSelectionForward))

\* The switch of Selector::extend, on a selector already InProgress.
extendByMode(t, coord) ==
    CASE t.mode = "FullLine" ->
             IF CoordGreater(coord, t.start)
             THEN [t EXCEPT !.to = Coordinate(walkForward(coord.line, t.totalRowCount),
                                              coord.column)]
             ELSE IF CoordLess(coord, t.start)
             THEN [t EXCEPT !.from = Coordinate(walkBackward(coord.line), coord.column)]
             ELSE t
      [] t.mode = "Linear" ->
             [t EXCEPT !.to = stretchedColumn(coord)]
      [] OTHER ->
             IF CoordGreater(coord, t.start)
             THEN Bind([t EXCEPT !.to = coord], extendSelectionForward)
             ELSE Bind([t EXCEPT !.to = coord],
                       LAMBDA t1 :
                  Bind(extendSelectionBackward(t1),
                       LAMBDA t2 :
                  Bind([swapDirection(t2) EXCEPT !.to = t.start],
                       extendSelectionForward)))

\* extend() that takes the column as given, without clamping it.
extendUnclamped(s, line, column) ==
    Bind([s EXCEPT !.state = "InProgress"],
         LAMBDA t : extendByMode(t, Coordinate(line, column)))

\* Selector::extend, the body after the assert.
extend(s, line, column) ==
    Bind([s EXCEPT !.state = "InProgress"],
         LAMBDA t : extendByMode(t, Coordinate(line, clamp(column, 0, columnCount_))))

\* Selector::isWordWiseSelection
isWordWiseSelection(mode) == mode = "LinearWordWise"

\* The constructor without the word-wise branch's state_ = InProgress.
ConstructWaiting(mode, total, anchor) ==
    LET s0 == Selector("Waiting", mode, total, anchor, anchor, anchor)
    IN  IF mode = "FullLine"
        THEN Bind(extend(s0, anchor.line, 0),
                  LAMBDA s1 :
             Bind(swapDirection(s1),
                  LAMBDA s2 :
             Bind(extend(s2, s2.from.line, columnCount_),
                  LAMBDA s3 :
                  [s3 EXCEPT !.from.line = walkBackward(s3.from.line),
                             !.to.line = walkForward(s3.to.line, total + 1)])))
        ELSE IF isWordWiseSelection(mode)
        THEN Bind(extendSelectionBackward(s0),
                  LAMBDA s2 :
             Bind(swapDirection(s2), extendSelectionForward))
        ELSE s0

\* Selector::Selector: the selector as the constructor leaves it.
Construct(mode, total, anchor) ==
    LET s0 == Selector("Waiting", mode, total, anchor, anchor, anchor)
    IN  IF mode = "FullLine"
        THEN Bind(extend(s0, anchor.line, 0),
                  LAMBDA s1 :
             Bind(swapDirection(s1),
                  LAMBDA s2 :
             Bind(extend(s2, s2.from.line, columnCount_),
                  LAMBDA s3 :
                  \* the forward walk tests to_.line < total, not to_.line + 1 < total
                  [s3 EXCEPT !.from.line = walkBackward(s3.from.line),
                             !.to.line = walkForward(s3.to.line, total + 1)])))
        ELSE IF isWordWiseSelection(mode)
        THEN Bind([s0 EXCEPT !.state = "InProgress"],
                  LAMBDA s1 :
             Bind(extendSelectionBackward(s1),
                  LAMBDA s2 :
             Bind(swapDirection(s2), extendSelectionForward)))
        ELSE s0

\* stop() that completes any selection not yet Complete.
stopAlways(s) == [s EXCEPT !.state = "Complete"]

\* Selector::stop
stop(s) == IF s.state = "InProgress" THEN [s EXCEPT !.state = "Complete"] ELSE s

\* ---------------------------------------------------------------- ranges
Range(line, fromColumn, toColumn) ==
    [line |-> line, fromColumn |-> fromColumn, toColumn |-> toColumn]

\* Range::length
length(r) == r.toColumn - r.fromColumn + 1

\* prepare(): the endpoints in ascending order and the number of lines.
prepare(s) ==
    LET swapped == CoordLess(s.to, s.from)
        from == IF swapped THEN s.to ELSE s.from
        to == IF swapped THEN s.from ELSE s.to
    IN  [from |-> from, to |-> to, numLines |-> to.line - from.line + 1]

\* linear() with the interior lines numbered from the second line on.
linearShifted(s) ==
    LET p == prepare(s)
    IN  [n \in 1 .. p.numLines |->
            IF n = 1
            THEN Range(p.from.line, p.from.column,
                       IF p.numLines = 1 THEN p.to.column ELSE columnCount_ - 1)
            ELSE IF n = p.numLines
            THEN Range(p.to.line, 0, p.to.column)
            ELSE Range(p.from.line + n, 0, columnCount_ - 1)]

\* Selector::linear
linear(s) ==
    LET p == prepare(s)
    IN  CASE p.numLines = 1 ->
                 << Range(p.from.line, p.from.column, p.to.column) >>
          [] p.numLines = 2 ->
                 << Range(p.from.line, p.from.column, columnCount_ - 1),
                    Range(p.to.line, 0, p.to.column) >>
          [] OTHER ->
                 [n \in 1 .. p.numLines |->
                     IF n = 1
                     THEN Range(p.from.line, p.from.column, columnCount_ - 1)
                     ELSE IF n = p.numLines
                     THEN Range(p.to.line, 0, p.to.column)
                     ELSE Range(p.from.line + (n - 1), 0, columnCount_ - 1)]

\* lines() with the columns counted from 0.
linesZeroBased(s) ==
    LET p == prepare(s)
    IN  [n \in 1 .. p.numLines |->
            Range(p.from.line + (n - 1), 0, columnCount_ - 1)]

\* Selector::lines
lines(s) ==
    LET p == prepare(s)
    IN  [n \in 1 .. p.numLines |-> Range(p.from.line + (n - 1), 1, columnCount_)]

\* Selector::rectangular
rectangular(s) ==
    LET p == prepare(s)
    IN  [n \in 1 .. p.numLines |->
            Range(p.from.line + (n - 1), p.from.column, p.to.column)]

\* Selector::selection
selection(s) ==
    CASE s.mode = "FullLine" -> lines(s)
      [] s.mode \in {"Linear", "LinearWordWise"} -> linear(s)
      [] OTHER -> rectangular(s)

\* contains() that takes the selection to run from `from` to `to` only.
containsForward(s, coord) ==
    CASE s.mode = "FullLine" -> ascending(s.from.line, coord.line, s.to.line)
      [] s.mode \in {"Linear", "LinearWordWise"} ->
             ascendingCoord(s.from, coord, s.to)
      [] OTHER ->
             /\ ascending(s.from.line, coord.line, s.to.line)
             /\ ascending(s.from.column, coord.column, s.to.column)

\* Selector::contains
contains(s, coord) ==
    CASE s.mode = "FullLine" ->
             \/ ascending(s.from.line, coord.line, s.to.line)
             \/ ascending(s.to.line, coord.line, s.from.line)
      [] s.mode \in {"Linear", "LinearWordWise"} ->
             \/ ascendingCoord(s.from, coord, s.to)
             \/ ascendingCoord(s.to, coord, s.from)
      [] OTHER ->
             /\ ascending(s.from.line, coord.line, s.to.line)
             /\ ascending(s.from.column, coord.column, s.to.column)

\* The coordinates of a range, in ascending column order (crispy::times).
RangeCoords(r) ==
    [i \in 1 .. (IF length(r) > 0 THEN length(r) ELSE 0) |->
        Coordinate(r.line, r.fromColumn + (i - 1))]

RECURSIVE Flatten(_)
Flatten(seqs) == IF seqs = << >> THEN << >> ELSE Head(seqs) \o Flatten(Tail(seqs))

\* render() that gives up at the first coordinate without a cell.
renderUntilAbsent(s) ==
    LET rs == selection(s)
        all == Flatten([i \in 1 .. Len(rs) |-> RangeCoords(rs[i])])
        absent == {i \in 1 .. Len(all) : ~CellPresent(all[i])}
    IN  IF absent = {}
        THEN all
        ELSE SubSeq(all, 1, (CHOOSE i \in absent : \A k \in absent : i <= k) - 1)

\* Selector::render: the coordinates the callback is invoked with, in order.
render(s) ==
    LET rs == selection(s)
    IN  SelectSeq(Flatten([i \in 1 .. Len(rs) |-> RangeCoords(rs[i])]), CellPresent)


\* ------------------------------------------------------------ CompactCell
\* CompactCell::MaxCodepoints
MaxCodepoints == 7

\* Color, CellFlags and HyperlinkId: the default value and one other.
DefaultColor == 0
Colors == {DefaultColor, 1}
None == 0
Flags == {None, 1}
NoHyperlink == 0
Hyperlinks == {NoHyperlink, 1}

\* Codepoints written to a cell: a narrow letter and a wide ideograph.
NarrowCodepoint == 97
WideCodepoint == 20013
Codepoints == {NarrowCodepoint, WideCodepoint}

\* unicode::width
unicodeWidth(cp) == IF cp = WideCodepoint THEN 2 ELSE 1

\* GraphicsAttributes
GraphicsAttributes(fg, bg, ul, fl) ==
    [foregroundColor |-> fg, backgroundColor |-> bg, underlineColor |-> ul, flags |-> fl]

\* A CellExtra as its member initialisers leave it; `allocated` tells whether
\* the cell's extra_ pointer owns one.
DefaultExtra ==
    [allocated |-> FALSE, codepoints |-> << >>, underlineColor |-> DefaultColor,
     hyperlink |-> NoHyperlink, imageFragment |-> FALSE, flags |-> None, width |-> 1]

\* CompactCell::extra: the cell with its extra block allocated.
extra(c) ==
    IF c.extra_.allocated
    THEN c
    ELSE [c EXCEPT !.extra_ = [DefaultExtra EXCEPT !.allocated = TRUE]]

\* CompactCell::width
width(c) == IF ~c.extra_.allocated THEN 1 ELSE c.extra_.width

\* CompactCell::setWidth
setWidth(c, w) ==
    IF w > 1 \/ c.extra_.allocated
    THEN [extra(c) EXCEPT !.extra_.width = w]
    ELSE c

\* CompactCell::CompactCell()
NewCell ==
    setWidth([codepoint_ |-> 0, foregroundColor_ |-> DefaultColor,
              backgroundColor_ |-> DefaultColor, extra_ |-> DefaultExtra], 1)

\* CompactCell::reset()
reset(c) ==
    [c EXCEPT !.codepoint_ = 0, !.foregroundColor_ = DefaultColor,
              !.backgroundColor_ = DefaultColor, !.extra_ = DefaultExtra]

\* CompactCell::reset(attributes, hyperlink)
resetWithHyperlink(c, attrs, hyperlink) ==
    LET c0 == [c EXCEPT !.codepoint_ = 0,
                        !.foregroundColor_ = attrs.foregroundColor,
                        !.backgroundColor_ = attrs.backgroundColor,
                        !.extra_ = DefaultExtra]
        c1 == IF attrs.underlineColor # DefaultColor
              THEN [extra(c0) EXCEPT !.extra_.underlineColor = attrs.underlineColor]
              ELSE c0
        c2 == IF attrs.flags # None
              THEN [extra(c1) EXCEPT !.extra_.flags = attrs.flags]
              ELSE c1
    IN  IF hyperlink # NoHyperlink
        THEN [extra(c2) EXCEPT !.extra_.hyperlink = hyperlink]
        ELSE c2

\* reset(attributes) that keeps the extra block of the previous contents.
resetWithAttributesKeepingExtra(c, attrs) ==
    LET c0 == [c EXCEPT !.codepoint_ = 0,
                        !.foregroundColor_ = attrs.foregroundColor,
                        !.backgroundColor_ = attrs.backgroundColor]
        c1 == IF attrs.flags # None
              THEN [extra(c0) EXCEPT !.extra_.flags = attrs.flags]
              ELSE c0
    IN  IF attrs.underlineColor # DefaultColor
        THEN [extra(c1) EXCEPT !.extra_.underlineColor = attrs.underlineColor]
        ELSE c1

\* CompactCell::reset(attributes)
resetWithAttributes(c, attrs) ==
    LET c0 == [c EXCEPT !.codepoint_ = 0,
                        !.foregroundColor_ = attrs.foregroundColor,
                        !.backgroundColor_ = attrs.backgroundColor,
                        !.extra_ = DefaultExtra]
        c1 == IF attrs.flags # None
              THEN [extra(c0) EXCEPT !.extra_.flags = attrs.flags]
              ELSE c0
    IN  IF attrs.underlineColor # DefaultColor
        THEN [extra(c1) EXCEPT !.extra_.underlineColor = attrs.underlineColor]
        ELSE c1

\* CompactCell::writeTextOnly
writeTextOnly(c, ch, w) ==
    LET c0 == [setWidth(c, w) EXCEPT !.codepoint_ = ch]
    IN  IF c0.extra_.allocated
        THEN [c0 EXCEPT !.extra_.codepoints = << >>]
        ELSE c0

\* CompactCell::write(attributes, ch, width)
write(c, attrs, ch, w) ==
    LET c0 == [setWidth(c, w) EXCEPT !.codepoint_ = ch]
        c1 == IF c0.extra_.allocated
              THEN [c0 EXCEPT !.extra_.codepoints = << >>,
                              !.extra_.imageFragment = FALSE]
              ELSE c0
        c2 == [c1 EXCEPT !.foregroundColor_ = attrs.foregroundColor,
                         !.backgroundColor_ = attrs.backgroundColor]
        c3 == IF attrs.flags # None \/ c2.extra_.allocated
              THEN [extra(c2) EXCEPT !.extra_.flags = attrs.flags]
              ELSE c2
    IN  IF attrs.underlineColor # DefaultColor
        THEN [extra(c3) EXCEPT !.extra_.underlineColor = attrs.underlineColor]
        ELSE c3

\* write(attributes, ch, width, hyperlink) that leaves an image fragment in
\* place.
writeWithHyperlinkKeepingImage(c, attrs, ch, w, hyperlink) ==
    LET c0 == writeTextOnly(c, ch, w)
        c2 == [c0 EXCEPT !.foregroundColor_ = attrs.foregroundColor,
                         !.backgroundColor_ = attrs.backgroundColor]
    IN  IF \/ attrs.flags # None
           \/ c2.extra_.allocated
           \/ attrs.underlineColor # DefaultColor
           \/ hyperlink # NoHyperlink
        THEN [extra(c2) EXCEPT !.extra_.underlineColor = attrs.underlineColor,
                               !.extra_.hyperlink = hyperlink,
                               !.extra_.flags = attrs.flags]
        ELSE c2

\* CompactCell::write(attributes, ch, width, hyperlink)
writeWithHyperlink(c, attrs, ch, w, hyperlink) ==
    LET c0 == writeTextOnly(c, ch, w)
        c1 == IF c0.extra_.allocated
              THEN [c0 EXCEPT !.extra_.imageFragment = FALSE]
              ELSE c0
        c2 == [c1 EXCEPT !.foregroundColor_ = attrs.foregroundColor,
                         !.backgroundColor_ = attrs.backgroundColor]
    IN  IF \/ attrs.flags # None
           \/ c2.extra_.allocated
           \/ attrs.underlineColor # DefaultColor
           \/ hyperlink # NoHyperlink
        THEN [extra(c2) EXCEPT !.extra_.underlineColor = attrs.underlineColor,
                               !.extra_.hyperlink = hyperlink,
                               !.extra_.flags = attrs.flags]
        ELSE c2

\* CompactCell::setCharacter
setCharacter(c, cp) ==
    LET c0 == [c EXCEPT !.codepoint_ = cp]
        c1 == IF c0.extra_.allocated
              THEN [c0 EXCEPT !.extra_.codepoints = << >>,
                              !.extra_.imageFragment = FALSE]
              ELSE c0
    IN  IF cp # 0
        THEN setWidth(c1, IF unicodeWidth(cp) > 1 THEN unicodeWidth(cp) ELSE 1)
        ELSE setWidth(c1, 1)

\* CellUtil::computeWidthChange: a codepoint wider than the cell widens it.
computeWidthChange(c, cp) ==
    IF unicodeWidth(cp) > width(c) THEN unicodeWidth(cp) - width(c) ELSE 0

\* appendCharacter() that still appends to a cluster of MaxCodepoints.
appendCharacterOffByOne(c, cp) ==
    LET ext == extra(c)
    IN  IF Len(ext.extra_.codepoints) <= MaxCodepoints - 1
        THEN LET pushed == [ext EXCEPT !.extra_.codepoints = Append(@, cp)]
                 diff == computeWidthChange(pushed, cp)
             IN  IF diff # 0
                 THEN [cell |-> setWidth(pushed, width(pushed) + diff), result |-> diff]
                 ELSE [cell |-> pushed, result |-> 0]
        ELSE [cell |-> ext, result |-> 0]

\* CompactCell::appendCharacter: the cell afterwards and the value returned.
appendCharacter(c, cp) ==
    LET ext == extra(c)
    IN  IF Len(ext.extra_.codepoints) < MaxCodepoints - 1
        THEN LET pushed == [ext EXCEPT !.extra_.codepoints = Append(@, cp)]
                 diff == computeWidthChange(pushed, cp)
             IN  IF diff # 0
                 THEN [cell |-> setWidth(pushed, width(pushed) + diff), result |-> diff]
                 ELSE [cell |-> pushed, result |-> 0]
        ELSE [cell |-> ext, result |-> 0]

\* CompactCell::codepointCount
CompactCell_codepointCount(c) ==
    IF c.codepoint_ # 0
    THEN IF ~c.extra_.allocated THEN 1 ELSE 1 + Len(c.extra_.codepoints)
    ELSE 0

\* CompactCell::codepoints: the primary codepoint and its continuation.
codepoints(c) ==
    IF c.codepoint_ # 0 THEN << c.codepoint_ >> \o c.extra_.codepoints ELSE << >>


\* The call ended the process: std::terminate from an exception leaving a
\* noexcept function.
Terminated == -1

\* CompactCell::codepoint: the set of outcomes the builds can produce.  With
\* assertions enabled an index past the continuation throws inside the noexcept
\* function; without them the index one past the end reads the string's
\* terminator and any later index is an out-of-bounds read.
codepoint(c, i) ==
    IF i = 0 THEN {c.codepoint_}
    ELSE IF ~c.extra_.allocated THEN {0}
    ELSE IF i - 1 < Len(c.extra_.codepoints) THEN {c.extra_.codepoints[i]}
    ELSE IF i - 1 = Len(c.extra_.codepoints) THEN {Terminated, 0}
    ELSE {Terminated, 0} \cup Codepoints

\* CompactCell::flags
flags(c) == IF ~c.extra_.allocated THEN None ELSE c.extra_.flags

\* CompactCell::resetFlags()
resetFlags(c) ==
    IF c.extra_.allocated THEN [c EXCEPT !.extra_.flags = None] ELSE c

\* CompactCell::resetFlags(flags)
resetFlagsTo(c, fl) == [extra(c) EXCEPT !.extra_.flags = fl]

\* CompactCell::foregroundColor, CompactCell::backgroundColor
foregroundColor(c) == c.foregroundColor_
backgroundColor(c) == c.backgroundColor_

\* CompactCell::underlineColor
underlineColor(c) ==
    IF ~c.extra_.allocated THEN DefaultColor ELSE c.extra_.underlineColor

\* CompactCell::setUnderlineColor
setUnderlineColor(c, color) ==
    IF c.extra_.allocated
    THEN [c EXCEPT !.extra_.underlineColor = color]
    ELSE IF color # DefaultColor
    THEN [extra(c) EXCEPT !.extra_.underlineColor = color]
    ELSE c

\* CompactCell::imageFragment: whether the cell holds one.
imageFragment(c) == IF c.extra_.allocated THEN c.extra_.imageFragment ELSE FALSE

\* CompactCell::setImageFragment
setImageFragment(c) == [extra(c) EXCEPT !.extra_.imageFragment = TRUE]

\* CompactCell::hyperlink
hyperlink(c) == IF c.extra_.allocated THEN c.extra_.hyperlink ELSE NoHyperlink

\* CompactCell::setHyperlink
setHyperlink(c, h) ==
    IF h # NoHyperlink
    THEN [extra(c) EXCEPT !.extra_.hyperlink = h]
    ELSE IF c.extra_.allocated
    THEN [c EXCEPT !.extra_.hyperlink = NoHyperlink]
    ELSE c

\* Require: a requirement that does not hold is fatal.
RequireAborts(cond) == ~cond

\* CompactCell::createExtra when operator new throws std::bad_alloc: extra_
\* is left as it was and the handler requires it to be set.
createExtraFailed(c) == [cell |-> c, aborted |-> RequireAborts(c.extra_.allocated)]

\* The call went through without asking for an extra block.
Completed(c) == [cell |-> c, aborted |-> FALSE]

\* CompactCell::write(attributes, ch, width) up to the first allocation of
\* the extra block, which fails.
writeAllocationFailure(c, attrs, ch, w) ==
    IF w > 1 /\ ~c.extra_.allocated
    THEN createExtraFailed(c)
    ELSE LET c0 == [setWidth(c, w) EXCEPT !.codepoint_ = ch]
             c1 == IF c0.extra_.allocated
                   THEN [c0 EXCEPT !.extra_.codepoints = << >>,
                                   !.extra_.imageFragment = FALSE]
                   ELSE c0
             c2 == [c1 EXCEPT !.foregroundColor_ = attrs.foregroundColor,
                              !.backgroundColor_ = attrs.backgroundColor]
         IN  IF /\ ~c2.extra_.allocated
                /\ attrs.flags # None \/ attrs.underlineColor # DefaultColor
             THEN createExtraFailed(c2)
             ELSE Completed(write(c, attrs, ch, w))

\* CompactCell::write(attributes, ch, width, hyperlink) up to the first
\* allocation of the extra block, which fails.
writeWithHyperlinkAllocationFailure(c, attrs, ch, w, h) ==
    IF w > 1 /\ ~c.extra_.allocated
    THEN createExtraFailed(c)
    ELSE LET c0 == writeTextOnly(c, ch, w)
             c1 == IF c0.extra_.allocated
                   THEN [c0 EXCEPT !.extra_.imageFragment = FALSE]
                   ELSE c0
             c2 == [c1 EXCEPT !.foregroundColor_ = attrs.foregroundColor,
                              !.backgroundColor_ = attrs.backgroundColor]
         IN  IF /\ ~c2.extra_.allocated
                /\ \/ attrs.flags # None
                   \/ attrs.underlineColor # DefaultColor
                   \/ h # NoHyperlink
             THEN createExtraFailed(c2)
             ELSE Completed(writeWithHyperlink(c, attrs, ch, w, h))

\* CompactCell::reset(attributes, hyperlink), and reset(attributes) with no
\* hyperlink, up to the first allocation of the extra block, which fails.
resetAllocationFailure(c, attrs, h) ==
    LET c0 == [c EXCEPT !.codepoint_ = 0,
                        !.foregroundColor_ = attrs.foregroundColor,
                        !.backgroundColor_ = attrs.backgroundColor,
                        !.extra_ = DefaultExtra]
    IN  IF \/ attrs.flags # None
           \/ attrs.underlineColor # DefaultColor
           \/ h # NoHyperlink
        THEN createExtraFailed(c0)
        ELSE Completed(c0)

\* CompactCell::operator=(CompactCell const&): c after  c = v.
assign(c, v) ==
    LET c0 == [c EXCEPT !.codepoint_ = v.codepoint_,
                        !.foregroundColor_ = v.foregroundColor_,
                        !.backgroundColor_ = v.backgroundColor_]
    IN  IF v.extra_.allocated THEN [c0 EXCEPT !.extra_ = v.extra_] ELSE c0

\* ------------------------------------------------------------------ loops
\* The loops of the selector's operations, one iteration at a time.  A loop
\* in progress is a record of its kind (pc), whether it has ended (done), its
\* local variables, the value `last` it was entered with for the loops that
\* have no such local, and the callbacks it runs with: `absent` for a cell accessor that yields no cell at
\* any coordinate, `wrappedOutside` for the wrap predicate's value on lines
\* that are not in the grid.
Idle == [pc |-> "idle", done |-> FALSE]

Loop(pc, current, last, limit, n, absent, wrappedOutside) ==
    [pc |-> pc, done |-> FALSE, current |-> current, last |-> last,
     limit |-> limit, n |-> n, absent |-> absent, wrappedOutside |-> wrappedOutside]

\* break, or the loop condition failing.
Done(l) == [l EXCEPT !.done = TRUE]

\* at(coord) yields no cell.
loopCellAbsent(l, coord) == l.absent \/ ~CellPresent(coord)

\* wrapped_(line)
loopWrapped(l, line) ==
    IF line \in LineOffsets THEN lineAt(line).wrapped ELSE l.wrappedOutside

\* stretchedColumn(coord), called from a loop.
loopStretchedColumn(l, coord) == IF l.absent THEN coord ELSE stretchedColumn(coord)

\* isWordDelimiterAt(coord), called from a loop.
loopIsWordDelimiterAt(l, coord) == l.absent \/ isWordDelimiterAt(coord)

\* An iteration of stretchedColumn's loop that does not move over an empty cell.
stretchedColumnStepStuck(l) ==
    LET stretched == l.current
    IN  IF stretched.column < columnCount_
        THEN IF ~loopCellAbsent(l, stretched)
             THEN IF empty(at(stretched))
                  THEN l
                  ELSE Done([l EXCEPT !.current.column = @ + (at(stretched).width - 1)])
             ELSE Done(l)
        ELSE Done(l)

\* One iteration of the while loop of Selector::stretchedColumn.
stretchedColumnStep(l) ==
    LET stretched == l.current
    IN  IF stretched.column < columnCount_
        THEN IF ~loopCellAbsent(l, stretched)
             THEN IF empty(at(stretched))
                  THEN [l EXCEPT !.current.column = @ + 1]
                  ELSE Done([l EXCEPT !.current.column = @ + (at(stretched).width - 1)])
             ELSE Done(l)
        ELSE Done(l)

\* One iteration of the for (;;) loop of Selector::extendSelectionBackward.
extendSelectionBackwardStep(l) ==
    LET current == l.current
        wrapIntoPreviousLine ==
            current.column = 1 /\ current.line > 0 /\ loopWrapped(l, current.line)
        next == IF current.column > 1
                THEN [current EXCEPT !.column = @ - 1]
                ELSE Coordinate(current.line - 1, columnCount_)
    IN  IF current.column > 1 \/ current.line > 0 \/ wrapIntoPreviousLine
        THEN IF loopIsWordDelimiterAt(l, next)
             THEN Done(l)
             ELSE [l EXCEPT !.current = next, !.last = next]
        ELSE Done(l)

\* One iteration of the for (;;) loop of Selector::extendSelectionForward;
\* limit is totalRowCount_.
extendSelectionForwardStep(l) ==
    LET current == l.current
        entered == IF /\ current.column = columnCount_
                      /\ current.line + 1 < l.limit
                      /\ loopWrapped(l, current.line + 1)
                   THEN loopStretchedColumn(l, Coordinate(current.line + 1, 0 + 1))
                   ELSE current
        Visit(next) ==
            IF loopIsWordDelimiterAt(l, next)
            THEN Done([l EXCEPT !.current = next])
            ELSE [l EXCEPT !.current = next, !.last = next]
    IN  IF entered.column < columnCount_
        THEN Visit(loopStretchedColumn(l, Coordinate(entered.line, entered.column + 1)))
        ELSE IF entered.line < l.limit
        THEN Visit(Coordinate(entered.line + 1, 0))
        ELSE Done([l EXCEPT !.current = entered])

\* The coordinates the next iteration of extendSelectionBackward's loop hands
\* to isWordDelimiterAt, which passes them to the cell accessor.
extendSelectionBackwardQuery(l) ==
    LET current == l.current
        wrapIntoPreviousLine ==
            current.column = 1 /\ current.line > 0 /\ loopWrapped(l, current.line)
    IN  IF current.column > 1
        THEN {[current EXCEPT !.column = @ - 1]}
        ELSE IF current.line > 0 \/ wrapIntoPreviousLine
        THEN {Coordinate(current.line - 1, columnCount_)}
        ELSE {}

\* The coordinates the next iteration of extendSelectionForward's loop hands
\* to isWordDelimiterAt: where the iteration leaves `current`, unless it
\* breaks before the test.
extendSelectionForwardQuery(l) ==
    LET current == l.current
        entered == IF /\ current.column = columnCount_
                      /\ current.line + 1 < l.limit
                      /\ loopWrapped(l, current.line + 1)
                   THEN loopStretchedColumn(l, Coordinate(current.line + 1, 0 + 1))
                   ELSE current
    IN  IF entered.column < columnCount_
        THEN {loopStretchedColumn(l, Coordinate(entered.line, entered.column + 1))}
        ELSE IF entered.line < l.limit
        THEN {Coordinate(entered.line + 1, 0)}
        ELSE {}

\* One iteration of  while (from_.line > 0 && wrapped_(from_.line)) from_.line--;
walkBackwardStep(l) ==
    IF l.current.line > 0 /\ loopWrapped(l, l.current.line)
    THEN [l EXCEPT !.current.line = @ - 1]
    ELSE Done(l)

\* One iteration of  while (to_.line + 1 < limit && wrapped_(to_.line + 1))
\* to_.line++;  limit is totalRowCount_ in extend() and one more in the
\* constructor, which tests to_.line < totalRowCount_.
walkForwardStep(l) ==
    IF l.current.line + 1 < l.limit /\ loopWrapped(l, l.current.line + 1)
    THEN [l EXCEPT !.current.line = @ + 1]
    ELSE Done(l)

\* The lines the next iteration of the forward walk asks wrapped_ about:
\* the second operand of && is evaluated only if the first holds.
walkForwardQuery(l) ==
    IF l.current.line + 1 < l.limit THEN {l.current.line + 1} ELSE {}

\* One iteration of the for loops of linear(), lines() and rectangular() over
\* the result vector; limit is its size.
selectionStep(l) ==
    IF l.n < l.limit THEN [l EXCEPT !.n = @ + 1] ELSE Done(l)

\* ------------------------------------------------------------ grid inputs
CellKinds == {EmptyCell, LetterCell, CommaCell, WideCell}

\* A wide cell is followed by its empty tail, so it never sits in the last column.
ValidRow(cells) ==
    \A i \in 1 .. Columns :
        cells[i].width > 1 => i < Columns /\ cells[i + 1] = EmptyCell

\* The cells of a row that are not plain letters, a wide cell's tail not counted.
Features(cells) ==
    {i \in 1 .. Columns :
        /\ cells[i] # LetterCell
        /\ ~(i > 1 /\ cells[i] = EmptyCell /\ cells[i - 1].width > 1)}

PlainRow == [i \in 1 .. Columns |-> LetterCell]

BlankRow == [i \in 1 .. Columns |-> EmptyCell]

\* Rows of letters, empty cells and wide cells: what stretchedColumn reads.
LinearRows == {cells \in [1 .. Columns -> {LetterCell, EmptyCell, WideCell}] : ValidRow(cells)}

\* Rows of text with at most one delimiter, gap or wide cell, and the blank row.
WordRows ==
    {cells \in [1 .. Columns -> CellKinds] :
        ValidRow(cells) /\ Cardinality(Features(cells)) <= 1} \cup {BlankRow}

Line(cells, wrapped) == [cells |-> cells, wrapped |-> wrapped]

PlainLine == Line(PlainRow, FALSE)

BlankLine == Line(BlankRow, FALSE)

\* The numbers of lines of a grid: the page alone, or the page below a full history.
GridSizes == {PageLines, PageLines + MaxHistory}

\* Grids of plain text in which one line is any of `special`.
GridsWithLine(special) ==
    {[i \in 1 .. n |-> IF i = k THEN v ELSE PlainLine] :
        n \in GridSizes, k \in 1 .. (PageLines + MaxHistory), v \in special}

\* Grids of plain text with any combination of wrapped lines.
GridsOfWraps ==
    UNION {{[i \in 1 .. n |-> Line(PlainRow, w[i])] : w \in [1 .. n -> BOOLEAN]} :
              n \in GridSizes}

\* The grids a selector of the given mode is run on: the grid features the
\* mode reads vary, the rest of the grid is plain text.  Linear reads empty
\* and wide cells, FullLine reads the wrapped flags, LinearWordWise reads
\* both and the delimiters; Rectangular runs the word-wise code, and is given
\* the word rows either unwrapped or as a wrapped line of plain text.
GridsFor(mode) ==
    CASE mode = "Linear" -> GridsWithLine({Line(c, FALSE) : c \in LinearRows})
      [] mode = "FullLine" -> GridsOfWraps
      [] mode = "LinearWordWise" ->
             GridsWithLine({Line(c, w) : c \in WordRows, w \in BOOLEAN})
      [] OTHER -> GridsWithLine({Line(c, FALSE) : c \in WordRows}
                                \cup {Line(PlainRow, TRUE)})

\* ----------------------------------------------------------------- state
Self == Selector(state_, mode_, totalRowCount_, start_, from_, to_)

Becomes(s) ==
    /\ state_' = s.state
    /\ mode_' = s.mode
    /\ totalRowCount_' = s.totalRowCount
    /\ start_' = s.start
    /\ from_' = s.from
    /\ to_' = s.to

\* The coordinates of the grid's cells.
GridCoords == {Coordinate(l, c) : l \in LineOffsets, c \in 0 .. (Columns - 1)}

\* The columns extend() is called with: from 0 to right of the page, where
\* the column is clamped to the page width before the mode is looked at.  A
\* FullLine selection only compares the column with the anchor's, so the two
\* ends of the row stand for the others.
ExtendColumns ==
    CASE mode_ = "FullLine" -> {0, Columns, Columns + 1}
      [] mode_ = "Linear" -> 0 .. (Columns + 1)
      [] OTHER -> 0 .. Columns

ExtendCoords == {Coordinate(l, c) : l \in LineOffsets, c \in ExtendColumns}

\* The state after Selector's constructor ran, in one of `modes`, on a grid.
InitWith(modes, arg) ==
    /\ aborted = FALSE
    /\ compactCell = NewCell
    /\ loop = Idle
    /\ extendArg = arg
    /\ \E mode \in modes :
          /\ grid \in GridsFor(mode)
          /\ \E anchor \in GridCoords :
                \E s \in {Construct(mode, PageLines + historyLineCount, anchor)} :
                    /\ state_ = s.state
                    /\ mode_ = s.mode
                    /\ totalRowCount_ = s.totalRowCount
                    /\ start_ = s.start
                    /\ from_ = s.from
                    /\ to_ = s.to

Init == InitWith(Modes, NotExtended)

\* What extendArg becomes when extend(coord) is called.
Recorded(coord) ==
    IF extendArg \in {NotExtended, Extended}
    THEN Extended
    ELSE Coordinate(coord.line, clamp(coord.column, 0, columnCount_))

\* extend(coord) on a selector that is not Complete.
Extend(coord) ==
    /\ ~aborted
    /\ state_ # "Complete"
    /\ \E s \in {extend(Self, coord.line, coord.column)} : Becomes(s)
    /\ extendArg' = Recorded(coord)
    /\ UNCHANGED <<grid, aborted, compactCell, loop>>

\* extend(coord) on a Complete selector: the assert aborts the process, or,
\* in a build with NDEBUG, is compiled out and the body runs.
ExtendComplete(coord) ==
    /\ ~aborted
    /\ state_ = "Complete"
    /\ \/ /\ aborted' = TRUE
          /\ UNCHANGED <<grid, state_, mode_, totalRowCount_, start_, from_, to_, extendArg, compactCell, loop>>
       \/ /\ \E s \in {extend(Self, coord.line, coord.column)} : Becomes(s)
          /\ extendArg' = Recorded(coord)
          /\ UNCHANGED <<grid, aborted, compactCell, loop>>

\* stop()
Stop ==
    /\ ~aborted
    /\ Becomes(stop(Self))
    /\ UNCHANGED <<grid, extendArg, aborted, compactCell, loop>>

\* The grid scrolls by one line: the top page line moves into the history,
\* the oldest history line is evicted when the history is full, and a blank
\* line enters at the bottom.  The selector is not told.
scrollUp(g) ==
    IF Len(g) - PageLines < MaxHistory
    THEN Append(g, BlankLine)
    ELSE Append(Tail(g), BlankLine)

Scroll ==
    /\ ~aborted
    /\ grid' = scrollUp(grid)
    /\ grid' # grid
    /\ UNCHANGED <<state_, mode_, totalRowCount_, start_, from_, to_, extendArg, aborted, compactCell, loop>>

Next ==
    \/ \E coord \in ExtendCoords : Extend(coord)
    \/ Stop

Spec == Init /\ [][Next]_vars

SpecLinear == InitWith({"Linear"}, NoCoord) /\ [][Next]_vars

SpecWordWise == InitWith({"LinearWordWise"}, NoCoord) /\ [][Next]_vars

SpecFullLine == InitWith({"FullLine"}, NoCoord) /\ [][Next]_vars

SpecRectangular == InitWith({"Rectangular"}, NoCoord) /\ [][Next]_vars

NextScroll ==
    \/ Next
    \/ Scroll

\* The selector used while the terminal keeps scrolling.
SpecScroll == Init /\ [][NextScroll]_vars

\* ----------------------------------------------------- CompactCell in use
\* The selector's variables, which the cell operations leave alone.
selectorVars ==
    <<grid, state_, mode_, totalRowCount_, start_, from_, to_, extendArg, aborted, loop>>

\* The graphics attributes a cell is written and reset with.
Attributes ==
    {GraphicsAttributes(DefaultColor, DefaultColor, DefaultColor, None),
     GraphicsAttributes(1, 1, DefaultColor, None),
     GraphicsAttributes(DefaultColor, DefaultColor, 1, None),
     GraphicsAttributes(DefaultColor, DefaultColor, DefaultColor, 1),
     GraphicsAttributes(1, 1, 1, 1)}

\* The widths a cell is written with.
Widths == {1, 2}

\* A default-constructed cell, beside a selector on a blank page.
InitCell ==
    /\ compactCell = NewCell
    /\ loop = Idle
    /\ aborted = FALSE
    /\ extendArg = NoCoord
    /\ grid = [i \in 1 .. PageLines |-> BlankLine]
    /\ \E s \in {Construct("Linear", PageLines, Coordinate(0, 0))} :
          /\ state_ = s.state
          /\ mode_ = s.mode
          /\ totalRowCount_ = s.totalRowCount
          /\ start_ = s.start
          /\ from_ = s.from
          /\ to_ = s.to

\* write(attributes, ch, width)
Write(attrs, ch, w) ==
    /\ compactCell' = write(compactCell, attrs, ch, w)
    /\ UNCHANGED selectorVars

\* write(attributes, ch, width, hyperlink)
WriteWithHyperlink(attrs, ch, w, h) ==
    /\ compactCell' = writeWithHyperlink(compactCell, attrs, ch, w, h)
    /\ UNCHANGED selectorVars

\* reset()
Reset ==
    /\ compactCell' = reset(compactCell)
    /\ UNCHANGED selectorVars

\* reset(attributes)
ResetWithAttributes(attrs) ==
    /\ compactCell' = resetWithAttributes(compactCell, attrs)
    /\ UNCHANGED selectorVars

\* reset(attributes, hyperlink)
ResetWithHyperlink(attrs, h) ==
    /\ compactCell' = resetWithHyperlink(compactCell, attrs, h)
    /\ UNCHANGED selectorVars

\* setCharacter(codepoint), also with codepoint 0
SetCharacter(cp) ==
    /\ compactCell' = setCharacter(compactCell, cp)
    /\ UNCHANGED selectorVars

\* appendCharacter(codepoint)
AppendCharacter(cp) ==
    /\ compactCell' = appendCharacter(compactCell, cp).cell
    /\ UNCHANGED selectorVars

\* setWidth(width)
SetWidth(w) ==
    /\ compactCell' = setWidth(compactCell, w)
    /\ UNCHANGED selectorVars

\* setHyperlink(hyperlink)
SetHyperlink(h) ==
    /\ compactCell' = setHyperlink(compactCell, h)
    /\ UNCHANGED selectorVars

\* setUnderlineColor(color)
SetUnderlineColor(color) ==
    /\ compactCell' = setUnderlineColor(compactCell, color)
    /\ UNCHANGED selectorVars

\* resetFlags()
ResetFlags ==
    /\ compactCell' = resetFlags(compactCell)
    /\ UNCHANGED selectorVars

\* resetFlags(flags)
ResetFlagsTo(fl) ==
    /\ compactCell' = resetFlagsTo(compactCell, fl)
    /\ UNCHANGED selectorVars

\* setImageFragment(image, offset)
SetImageFragment ==
    /\ compactCell' = setImageFragment(compactCell)
    /\ UNCHANGED selectorVars

\* The cells a cell is assigned from: a fresh cell, and fresh cells written
\* once by the write path.
SourceCells ==
    {NewCell}
    \cup {writeWithHyperlink(NewCell, attrs, ch, w, h) :
            attrs \in Attributes, ch \in Codepoints, w \in Widths, h \in Hyperlinks}

\* operator=(v)
Assign(v) ==
    /\ compactCell' = assign(compactCell, v)
    /\ UNCHANGED selectorVars

NextCell ==
    \/ \E attrs \in Attributes, ch \in Codepoints, w \in Widths : Write(attrs, ch, w)
    \/ \E attrs \in Attributes, ch \in Codepoints, w \in Widths, h \in Hyperlinks :
          WriteWithHyperlink(attrs, ch, w, h)
    \/ Reset
    \/ \E attrs \in Attributes : ResetWithAttributes(attrs)
    \/ \E attrs \in Attributes, h \in Hyperlinks : ResetWithHyperlink(attrs, h)
    \/ \E cp \in Codepoints \cup {0} : SetCharacter(cp)
    \/ \E cp \in Codepoints : AppendCharacter(cp)
    \/ \E w \in Widths : SetWidth(w)
    \/ \E h \in Hyperlinks : SetHyperlink(h)
    \/ \E color \in Colors : SetUnderlineColor(color)
    \/ ResetFlags
    \/ \E fl \in Flags : ResetFlagsTo(fl)
    \/ SetImageFragment
    \/ \E v \in SourceCells : Assign(v)

\* A cell under the write path's operations.
SpecCell == InitCell /\ [][NextCell]_vars

\* A call during which operator new throws std::bad_alloc.
AllocationFailure(r) ==
    /\ ~aborted
    /\ r.aborted
    /\ compactCell' = r.cell
    /\ aborted' = TRUE
    /\ UNCHANGED <<grid, state_, mode_, totalRowCount_, start_, from_, to_, extendArg, loop>>

\* write(attributes, ch, width) running out of memory
WriteAllocationFailure(attrs, ch, w) ==
    AllocationFailure(writeAllocationFailure(compactCell, attrs, ch, w))

\* write(attributes, ch, width, hyperlink) running out of memory
WriteWithHyperlinkAllocationFailure(attrs, ch, w, h) ==
    AllocationFailure(writeWithHyperlinkAllocationFailure(compactCell, attrs, ch, w, h))

\* reset(attributes) and reset(attributes, hyperlink) running out of memory
ResetAllocationFailure(attrs, h) ==
    AllocationFailure(resetAllocationFailure(compactCell, attrs, h))

NextCellAlloc ==
    \/ ~aborted /\ NextCell
    \/ \E attrs \in Attributes, ch \in Codepoints, w \in Widths :
        WriteAllocationFailure(attrs, ch, w)
    \/ \E attrs \in Attributes, ch \in Codepoints, w \in Widths, h \in Hyperlinks :
        WriteWithHyperlinkAllocationFailure(attrs, ch, w, h)
    \/ \E attrs \in Attributes, h \in Hyperlinks :
        ResetAllocationFailure(attrs, h)

\* The cell operations with allocations that may fail.
SpecCellAlloc == InitCell /\ [][NextCellAlloc]_vars

\* -------------------------------------------------------- loops in progress
\* The coordinates a loop can be entered with: the grid's, the column past
\* the page and the one after it, and the lines next to the grid.
LoopLines == (0 - historyLineCount - 1) .. (PageLines + historyLineCount + 1)

LoopCoords == {Coordinate(line, c) : line \in LoopLines, c \in 0 .. (Columns + 1)}

\* The loops of the constructor, extend() and selection() as they are entered.
LoopStarts ==
    LET total == PageLines + historyLineCount
        origin == Coordinate(0, 0)
    IN  {Loop("stretchedColumn", c, c, 0, 0, a, FALSE) :
            c \in LoopCoords, a \in BOOLEAN}
        \cup {Loop("extendSelectionBackward", c, c, 0, 0, a, w) :
                c \in LoopCoords, a \in BOOLEAN, w \in BOOLEAN}
        \cup {Loop("extendSelectionForward", c, c, total, 0, a, w) :
                c \in LoopCoords, a \in BOOLEAN, w \in BOOLEAN}
        \cup {Loop("walkBackward", Coordinate(line, 0), Coordinate(line, 0),
                    0, 0, FALSE, w) :
                line \in LoopLines, w \in BOOLEAN}
        \cup {Loop("walkForward", Coordinate(line, 0), Coordinate(line, 0),
                    limit, 0, FALSE, w) :
                line \in LoopLines, limit \in {total, total + 1}, w \in BOOLEAN}
        \cup {Loop("selection", origin, origin, limit, n, FALSE, FALSE) :
                limit \in 1 .. total, n \in {0, 1}}

\* A loop of a selector operation is entered, on any grid.
InitLoops ==
    /\ aborted = FALSE
    /\ compactCell = NewCell
    /\ extendArg = NotExtended
    /\ grid \in UNION {GridsFor(mode) : mode \in Modes}
    /\ \E s \in {Construct("Linear", PageLines + historyLineCount, Coordinate(0, 0))} :
          /\ state_ = s.state
          /\ mode_ = s.mode
          /\ totalRowCount_ = s.totalRowCount
          /\ start_ = s.start
          /\ from_ = s.from
          /\ to_ = s.to
    /\ loop \in LoopStarts

\* The loop in progress runs one iteration.
Iterate(pc, Step(_)) ==
    /\ loop.pc = pc
    /\ ~loop.done
    /\ loop' = Step(loop)
    /\ UNCHANGED <<grid, state_, mode_, totalRowCount_, start_, from_, to_,
                   extendArg, aborted, compactCell>>

StretchedColumnStep == Iterate("stretchedColumn", stretchedColumnStep)

ExtendSelectionBackwardStep ==
    Iterate("extendSelectionBackward", extendSelectionBackwardStep)

ExtendSelectionForwardStep ==
    Iterate("extendSelectionForward", extendSelectionForwardStep)

WalkBackwardStep == Iterate("walkBackward", walkBackwardStep)

WalkForwardStep == Iterate("walkForward", walkForwardStep)

SelectionStep == Iterate("selection", selectionStep)

NextLoops ==
    \/ StretchedColumnStep
    \/ ExtendSelectionBackwardStep
    \/ ExtendSelectionForwardStep
    \/ WalkBackwardStep
    \/ WalkForwardStep
    \/ SelectionStep

\* The loops of the selector, each run to its end: the thread that called
\* the operation keeps running.
SpecLoops == InitLoops /\ [][NextLoops]_vars /\ WF_vars(NextLoops)

\* ----------------------------------------------------------------- claims
\* The endpoints in ascending order.
Lower == IF CoordLess(to_, from_) THEN to_ ELSE from_
Upper == IF CoordLess(to_, from_) THEN from_ ELSE to_

RangeSet(rs) == {rs[i] : i \in DOMAIN rs}

\* The lines covered by the selection.
CoveredLines == {r.line : r \in RangeSet(selection(Self))}

\* An extend() call was recorded with its coordinate.
ExtendRecorded == extendArg \notin {NoCoord, NotExtended, Extended}

\* C1: in Linear mode selection() yields one range per line from the lower
\* to the upper endpoint's line, in ascending order: a single line runs from
\* the lower to the upper column; otherwise the first line runs from the
\* lower column to the last column, interior lines span the page and the last
\* line runs from column 0 to the upper column.
C1_LinearRanges ==
    mode_ = "Linear" =>
        LET rs == selection(Self)
            n == Upper.line - Lower.line + 1
        IN  /\ Len(rs) = n
            /\ \A i \in 1 .. n :
                  /\ rs[i].line = Lower.line + (i - 1)
                  /\ rs[i].fromColumn = (IF i = 1 THEN Lower.column ELSE 0)
                  /\ rs[i].toColumn = (IF i = n THEN Upper.column ELSE Columns - 1)

\* C1 witness: a Linear selection from the history into the page that has
\* an interior line.
C1_Witness ==
    /\ mode_ = "Linear"
    /\ state_ = "Complete"
    /\ Lower.line < 0
    /\ Upper.line > 0
    /\ Len(selection(Self)) >= 3

\* The content of the cells the selection covers, in render() order.
CoveredText ==
    LET cs == render(Self)
    IN  [i \in 1 .. Len(cs) |-> at(cs[i])]

\* No line the selection covers leaves the grid when it scrolls by one line.
NoLineEvicted == \A l \in CoveredLines : l - 1 >= 0 - MaxHistory

\* C2: a selection stays on its text while the grid scrolls: when a scroll
\* evicts none of the selection's lines, the cells selection() covers after
\* the scroll hold the content they held before it.
C2_ScrollStable ==
    [][(grid' # grid /\ NoLineEvicted) => CoveredText' = CoveredText]_vars

LinearRanges(a, b) ==
    RangeSet(selection(extend(Construct("Linear", totalRowCount_, a),
                              b.line, b.column)))

\* C4: in Linear mode the selection at hand, constructed on A and extended
\* to B, has the same set of ranges as one constructed on B and extended to
\* A, whatever the grid holds (empty and wide cells included).
C4_DirectionSymmetry ==
    (mode_ = "Linear" /\ ExtendRecorded /\ extendArg \in GridCoords) =>
        RangeSet(selection(Self)) = LinearRanges(extendArg, start_)

\* C5: in LinearWordWise mode a second extend() with the coordinate of the
\* call before it leaves from and to as the first call left them.
C5_WordWiseIdempotent ==
    (mode_ = "LinearWordWise" /\ state_ = "InProgress" /\ ExtendRecorded) =>
        LET again == extend(Self, extendArg.line, extendArg.column)
        IN  again.from = from_ /\ again.to = to_

\* C5 witness: a word-wise selection extended to a coordinate before the
\* anchor, on which the second call has run and that covers several cells.
C5_Witness ==
    /\ mode_ = "LinearWordWise"
    /\ state_ = "InProgress"
    /\ ExtendRecorded
    /\ CoordLess(extendArg, start_)
    /\ from_ # to_
    /\ extend(Self, extendArg.line, extendArg.column).to = to_

\* C6: in FullLine mode the covered lines are closed under line wrap in
\* every state: a covered wrapped line has the grid line before it covered,
\* and a covered line followed by a wrapped grid line has that line covered,
\* history lines included.
C6_WrapClosure ==
    mode_ = "FullLine" =>
        \A l \in CoveredLines \cap LineOffsets :
            /\ (wrapped_(l) /\ (l - 1) \in LineOffsets) => (l - 1) \in CoveredLines
            /\ ((l + 1) \in LineOffsets /\ wrapped_(l + 1)) => (l + 1) \in CoveredLines

\* The cell at column c of the anchor's line belongs to a word.
WordCell(c) ==
    LET cell == at(Coordinate(start_.line, c))
    IN  ~empty(cell) /\ cell.codepoint \notin wordDelimiters_

\* The columns of the word around the anchor: the run of word cells that
\* holds the anchor's column.
AnchorWord ==
    {c \in 0 .. (Columns - 1) :
        \A d \in 0 .. (Columns - 1) :
            ((c <= d /\ d <= start_.column) \/ (start_.column <= d /\ d <= c))
                => WordCell(d)}

\* The anchor's line is a logical line of its own and holds no wide cell.
AnchorLineUnwrapped ==
    /\ ~wrapped_(start_.line)
    /\ ~wrapped_(start_.line + 1)
    /\ \A c \in 0 .. (Columns - 1) : at(Coordinate(start_.line, c)).width = 1

\* C7: right after a LinearWordWise selector is constructed on an anchor
\* inside a word of an unwrapped line, from is the word's first cell and to
\* its last, also for a word that begins at column 0.
C7_WordSelected ==
    (/\ mode_ = "LinearWordWise"
     /\ extendArg = NoCoord
     /\ AnchorLineUnwrapped
     /\ WordCell(start_.column)) =>
        /\ from_ = Coordinate(start_.line, CHOOSE c \in AnchorWord : \A d \in AnchorWord : c <= d)
        /\ to_ = Coordinate(start_.line, CHOOSE c \in AnchorWord : \A d \in AnchorWord : c >= d)

\* C8: a Rectangular selection anchored at A, extended to B below and to
\* the right of A (or level with it) and stopped, yields on every line from
\* A's to B's the range from A's column to B's column.
C8_RectangleRanges ==
    (/\ mode_ = "Rectangular"
     /\ state_ = "Complete"
     /\ ExtendRecorded
     /\ start_.line <= extendArg.line
     /\ start_.column <= extendArg.column) =>
        selection(Self) =
            [n \in 1 .. (extendArg.line - start_.line + 1) |->
                Range(start_.line + (n - 1), start_.column, extendArg.column)]

\* The coordinates render() invokes its callback with.
Rendered == RangeSet(render(Self))

\* C9: a FullLine selector constructed on an anchor in row 0, with row 1 a
\* wrapped continuation of row 0, covers both rows entirely: render() visits
\* every cell of rows 0 and 1, from column 0 to the last column.
C9_FullLineRendersRows ==
    (/\ mode_ = "FullLine"
     /\ extendArg = NoCoord
     /\ start_.line = 0
     /\ wrapped_(1)) =>
        \A l \in {0, 1} : \A c \in 0 .. (Columns - 1) : Coordinate(l, c) \in Rendered

\* A step that extend() can have taken according to the state diagram.
ExtendTransition ==
    /\ state_ \in {"Waiting", "InProgress"}
    /\ state_' = "InProgress"
    /\ extendArg' = Extended

\* A step that stop() can have taken according to the state diagram.
StopTransition ==
    /\ state_' = (IF state_ = "InProgress" THEN "Complete" ELSE state_)
    /\ UNCHANGED <<from_, to_, start_, extendArg>>

\* C10: the state follows the state diagram: extend() in Waiting or
\* InProgress leaves the state InProgress, whether or not from/to change;
\* stop() moves InProgress to Complete and is a no-op in Waiting and Complete;
\* stop() changes neither from, to nor the anchor; and the state never
\* returns to Waiting.
C10_StateDiagram ==
    [][/\ extendArg' # extendArg => ExtendTransition
       /\ ExtendTransition \/ StopTransition
       /\ state_ # "Waiting" => state_' # "Waiting"
       /\ extendArg' = Extended => state_' # "Waiting"]_vars

\* C10 witness: a Linear selection that went from Waiting through
\* InProgress to Complete.
C10_Witness ==
    /\ mode_ = "Linear"
    /\ state_ = "Complete"
    /\ extendArg = Extended

\* What the constructor leaves behind, by mode.
Constructed ==
    /\ mode_ \in {"Linear", "Rectangular"} =>
          state_ = "Waiting" /\ from_ = start_ /\ to_ = start_
    /\ mode_ \in {"LinearWordWise", "FullLine"} => state_ = "InProgress"

\* C11: right after construction a Linear or Rectangular selection is
\* Waiting with from = to = anchor, and a LinearWordWise or FullLine
\* selection is InProgress; a Linear or Rectangular selection stays Waiting
\* until the first extend() call.
C11_InitialState ==
    /\ Constructed
    /\ [][(mode_ \in {"Linear", "Rectangular"} /\ state_ = "Waiting"
              /\ extendArg' = extendArg)
            => (state_' = "Waiting" /\ from_' = start_ /\ to_' = start_)]_vars

\* C11 witness: a freshly constructed word-wise selection, already
\* InProgress and covering more than the anchor cell.
C11_Witness ==
    /\ mode_ = "LinearWordWise"
    /\ extendArg = NotExtended
    /\ state_ = "InProgress"
    /\ from_ # to_

NextMisuse ==
    \/ Next
    \/ \E coord \in ExtendCoords : ExtendComplete(coord)

\* The selector with callers that extend a selection after stop().
SpecMisuse == Init /\ [][NextMisuse]_vars

\* C12: once the state is Complete no call changes the selection: extend()
\* is refused and state, from and to keep the values they had at stop().
C12_CompleteIsFinal ==
    [][state_ = "Complete" =>
          (state_' = "Complete" /\ from_' = from_ /\ to_' = to_)]_vars

\* C13: in LinearWordWise and Rectangular modes the selection holds its
\* anchor whatever the direction of the extension: from <= anchor <= to in
\* every state.
C13_AnchorInclusive ==
    mode_ \in {"LinearWordWise", "Rectangular"} =>
        /\ ~CoordLess(start_, from_)
        /\ ~CoordLess(to_, start_)

\* C13 witness: a word-wise selection extended to a line before the
\* anchor's, whose other end lies behind the anchor.
C13_Witness ==
    /\ mode_ = "LinearWordWise"
    /\ extendArg = Extended
    /\ from_.line < start_.line
    /\ CoordLess(start_, to_)

\* C14: contains() does not depend on the direction of the selection: in
\* every mode it answers the same for every coordinate before and after
\* swapDirection() exchanges from and to.
C14_ContainsDirectionless ==
    \A p \in GridCoords : contains(Self, p) = contains(swapDirection(Self), p)

Min(a, b) == IF a <= b THEN a ELSE b
Max(a, b) == IF a >= b THEN a ELSE b

\* p lies in the rectangle spanned by from and to, taken element-wise.
InRectangle(p) ==
    /\ Min(from_.line, to_.line) <= p.line
    /\ p.line <= Max(from_.line, to_.line)
    /\ Min(from_.column, to_.column) <= p.column
    /\ p.column <= Max(from_.column, to_.column)

\* C15: in Rectangular mode contains(p) is true exactly when p's line lies
\* between the smaller and the larger endpoint line and p's column between
\* the smaller and the larger endpoint column, also when from.column is
\* greater than to.column.
C15_RectangularContains ==
    mode_ = "Rectangular" =>
        \A p \in GridCoords : contains(Self, p) = InRectangle(p)

\* C16: in Rectangular mode selection() has one range for every line from
\* the smaller to the larger endpoint line, each from the smaller to the
\* larger of the two endpoint columns.
C16_RectangularColumns ==
    mode_ = "Rectangular" =>
        selection(Self) =
            [n \in 1 .. (Max(from_.line, to_.line) - Min(from_.line, to_.line) + 1) |->
                Range(Min(from_.line, to_.line) + (n - 1),
                      Min(from_.column, to_.column),
                      Max(from_.column, to_.column))]

\* C17: in every mode and state every range of selection() has
\* fromColumn <= toColumn, that is, a length of at least 1.
C17_RangesNotEmpty ==
    \A r \in RangeSet(selection(Self)) :
        r.fromColumn <= r.toColumn /\ length(r) >= 1

\* C18: in FullLine mode selection() has one range for every line from the
\* smaller to the larger endpoint line, each from column 1 to column
\* columnCount, whatever the endpoints' columns are.
C18_FullLineRanges ==
    mode_ = "FullLine" =>
        selection(Self) =
            [n \in 1 .. (Max(from_.line, to_.line) - Min(from_.line, to_.line) + 1) |->
                Range(Min(from_.line, to_.line) + (n - 1), 1, Columns)]

\* C18 witness: a FullLine selection over several lines whose endpoints sit
\* in different columns.
C18_Witness ==
    /\ mode_ = "FullLine"
    /\ Len(selection(Self)) >= 2
    /\ from_.column # to_.column

\* The coordinates of the ranges of selection().
RangeCoordinates ==
    UNION {{Coordinate(r.line, c) : c \in r.fromColumn .. r.toColumn} :
              r \in RangeSet(selection(Self))}

C20_ClusterCap ==
    /\ CompactCell_codepointCount(compactCell) <= 7
    /\ CompactCell_codepointCount(compactCell) = 7 =>
          \A cp \in Codepoints :
              LET r == appendCharacter(compactCell, cp)
              IN  /\ r.result = 0
                  /\ codepoints(r.cell) = codepoints(compactCell)
                  /\ width(r.cell) = width(compactCell)

\* C20 witness: a narrow cell that holds 7 codepoints, on which appending a
\* wide codepoint is refused.
C20_Witness ==
    /\ CompactCell_codepointCount(compactCell) = 7
    /\ width(compactCell) = 1
    /\ appendCharacter(compactCell, WideCodepoint).result = 0

\* An attribute kept in the extra block differs from its default.
ExtraInUse ==
    \/ compactCell.extra_.flags # None
    \/ compactCell.extra_.underlineColor # DefaultColor
    \/ compactCell.extra_.hyperlink # NoHyperlink
    \/ compactCell.extra_.imageFragment
    \/ compactCell.extra_.width # 1
    \/ compactCell.extra_.codepoints # << >>

\* C21: in every cell state the extra block is allocated only if a flag, a
\* non-default underline colour, a hyperlink, an image fragment, a width
\* other than 1 or a continuation codepoint is held in it.
C21_ExtraOnlyIfNeeded == compactCell.extra_.allocated => ExtraInUse


\* C22: whatever the cell held, after write(attrs, cp, w, hyperlink) the
\* primary codepoint is cp, there is no continuation codepoint, the width
\* is w, the colours, flags and underline colour are those of attrs, the
\* hyperlink is the given one and there is no image fragment.
C22_WriteReplaces ==
    \A attrs \in Attributes, cp \in Codepoints \cup {0}, w \in Widths,
       h \in Hyperlinks :
        LET r == writeWithHyperlink(compactCell, attrs, cp, w, h)
        IN  /\ codepoint(r, 0) = {cp}
            /\ r.extra_.codepoints = << >>
            /\ CompactCell_codepointCount(r) = (IF cp = 0 THEN 0 ELSE 1)
            /\ width(r) = w
            /\ foregroundColor(r) = attrs.foregroundColor
            /\ backgroundColor(r) = attrs.backgroundColor
            /\ flags(r) = attrs.flags
            /\ underlineColor(r) = attrs.underlineColor
            /\ hyperlink(r) = h
            /\ ~imageFragment(r)

\* A wide cell with a cluster, an image fragment, a hyperlink, flags and an
\* underline colour is overwritten by a plain narrow write.
C22_Witness ==
    /\ imageFragment(compactCell)
    /\ CompactCell_codepointCount(compactCell) > 1
    /\ width(compactCell) = 2
    /\ hyperlink(compactCell) # NoHyperlink
    /\ flags(compactCell) # None
    /\ underlineColor(compactCell) # DefaultColor
    /\ writeWithHyperlink(compactCell, GraphicsAttributes(0, 0, 0, 0),
                          NarrowCodepoint, 1, NoHyperlink).extra_
       = [DefaultExtra EXCEPT !.allocated = TRUE]


\* C23: whatever the cell held, a previous non-default underline colour
\* included, after write(attrs, cp, w) the flags, the foreground colour, the
\* background colour and the underline colour are those of attrs.
C23_WriteSetsAttributes ==
    \A attrs \in Attributes, cp \in Codepoints, w \in Widths :
        LET r == write(compactCell, attrs, cp, w)
        IN  /\ flags(r) = attrs.flags
            /\ foregroundColor(r) = attrs.foregroundColor
            /\ backgroundColor(r) = attrs.backgroundColor
            /\ underlineColor(r) = attrs.underlineColor

\* The cell is in its default state: no codepoint, default colours and no
\* extra block.
IsDefaultCell(c) == c = NewCell

\* The cell after reset(attrs, hyperlink) as the accessors show it.
IsResetTo(r, attrs, h) ==
    /\ CompactCell_codepointCount(r) = 0
    /\ width(r) = 1
    /\ ~imageFragment(r)
    /\ foregroundColor(r) = attrs.foregroundColor
    /\ backgroundColor(r) = attrs.backgroundColor
    /\ flags(r) = attrs.flags
    /\ underlineColor(r) = attrs.underlineColor
    /\ hyperlink(r) = h

\* C24: reset() returns the cell to the all-default state without an extra
\* block; reset(attrs) and reset(attrs, hyperlink) leave no codepoint, width
\* 1, no image fragment, the colours, flags and underline colour of attrs and
\* the given hyperlink, or none when it is omitted.
C24_ResetResults ==
    /\ IsDefaultCell(reset(compactCell))
    /\ \A attrs \in Attributes :
        /\ IsResetTo(resetWithAttributes(compactCell, attrs), attrs, NoHyperlink)
        /\ \A h \in Hyperlinks :
            IsResetTo(resetWithHyperlink(compactCell, attrs, h), attrs, h)

\* A wide cell with a cluster, an image fragment, a hyperlink, flags and an
\* underline colour is reset with default attributes.
C24_Witness ==
    /\ imageFragment(compactCell)
    /\ CompactCell_codepointCount(compactCell) > 1
    /\ width(compactCell) = 2
    /\ hyperlink(compactCell) # NoHyperlink
    /\ flags(compactCell) # None
    /\ underlineColor(compactCell) # DefaultColor
    /\ IsDefaultCell(resetWithAttributes(compactCell,
                                         GraphicsAttributes(0, 0, 0, 0)))

\* The indices a caller may pass to codepoint.
CodepointIndices == 0 .. MaxCodepoints + 1

\* C25: codepoint(i) is the primary codepoint for i = 0, the continuation
\* codepoint at position i - 1 for 1 <= i <= the number of continuation
\* codepoints, and 0 for every larger i, with or without an extra block.
C25_CodepointIndex ==
    \A i \in CodepointIndices :
        codepoint(compactCell, i) =
            {IF i = 0 THEN compactCell.codepoint_
             ELSE IF i <= Len(compactCell.extra_.codepoints)
             THEN compactCell.extra_.codepoints[i]
             ELSE 0}


\* What the accessors of a cell show.
Observable(c) ==
    <<c.codepoint_, c.extra_.codepoints, width(c), foregroundColor(c),
      backgroundColor(c), flags(c), underlineColor(c), hyperlink(c),
      imageFragment(c)>>

\* C26: when the allocation of the extra block fails during a write or a
\* reset, the failure is surfaced and the cell shows exactly what it showed
\* before the call.
C26_FailedAllocationKeepsCell ==
    [][(aborted' /\ ~aborted) => Observable(compactCell') = Observable(compactCell)]_vars


FirstOfLogicalLine(l) ==
    CHOOSE f \in LineOffsets :
        /\ f <= l
        /\ \A k \in (f + 1) .. l : wrapped_(k)
        /\ (f - 1) \in LineOffsets => ~wrapped_(f)

\* The last line of the logical line that grid line l is part of.
LastOfLogicalLine(l) ==
    CHOOSE t \in LineOffsets :
        /\ t >= l
        /\ \A k \in (l + 1) .. t : wrapped_(k)
        /\ (t + 1) \in LineOffsets => ~wrapped_(t + 1)

\* C29: in FullLine mode extend(coord) with coord greater than the anchor
\* changes only `to`, which becomes coord moved to the last line of its
\* logical line; extend(coord) with coord not greater than the anchor changes
\* only `from`, which becomes coord moved to the first line of its logical
\* line.
C29_FullLineExtend ==
    [][(mode_ = "FullLine" /\ extendArg' # extendArg) =>
        IF CoordGreater(extendArg', start_)
        THEN /\ from_' = from_
             /\ to_' = Coordinate(LastOfLogicalLine(extendArg'.line),
                                  extendArg'.column)
        ELSE /\ to_' = to_
             /\ from_' = Coordinate(FirstOfLogicalLine(extendArg'.line),
                                    extendArg'.column)]_vars

\* C30: a FullLine selector as constructed has from.column 0 and to.column
\* columnCount, with from.line the first and to.line the last line of the
\* anchor's logical line.
C30_FullLineConstructed ==
    (mode_ = "FullLine" /\ extendArg = NoCoord) =>
        /\ from_ = Coordinate(FirstOfLogicalLine(start_.line), 0)
        /\ to_ = Coordinate(LastOfLogicalLine(start_.line), columnCount_)


\* C27: every loop of the constructor, of extend() and of selection() comes
\* to its end, in every mode's code, on every grid, with any wrap predicate
\* and cell accessor (one that yields no cell included) and from coordinates
\* anywhere, the history and the lines next to the grid included.
C27_LoopsTerminate == <>loop.done

\* stretchedColumn's loop has moved over two empty cells or more and ended.
C27_Witness ==
    /\ loop.pc = "stretchedColumn"
    /\ loop.done
    /\ loop.current.column >= loop.last.column + 2


\* The forward walk of the FullLine constructor, entered on a line of the grid.
ConstructorForwardWalk ==
    /\ loop.pc = "walkForward"
    /\ loop.limit = totalRowCount_ + 1
    /\ loop.last.line \in LineOffsets

\* C31: during FullLine construction the forward walk asks the wrap
\* predicate only about lines below totalLineCount, and it leaves to.line at
\* most totalLineCount - 1.
C31_ForwardWalkBound ==
    ConstructorForwardWalk =>
        /\ ~loop.done => \A q \in walkForwardQuery(loop) : q < totalRowCount_
        /\ loop.done => loop.current.line <= totalRowCount_ - 1


\* The coordinates a word-wise extension is entered with: the cells of the
\* grid and the position past the end of each row.
WordStarts == {Coordinate(l, c) : l \in LineOffsets, c \in 0 .. Columns}

\* `to` after extendSelectionForward entered with to = c.
ForwardFrom(c) == extendSelectionForward([Self EXCEPT !.to = c]).to

\* C32: after the word-wise forward extension `to` is the coordinate it
\* started from or a coordinate whose cell is not a word delimiter.
C32_ForwardStopsBeforeDelimiter ==
    isWordWiseSelection(mode_) =>
        \A c \in WordStarts :
            ForwardFrom(c) = c \/ ~isWordDelimiterAt(ForwardFrom(c))


\* C33: the word-wise forward extension moves `to` onto a following line
\* only if that line is wrapped; otherwise `to` stays on the line it started
\* on, also when it starts at column columnCount.
C33_ForwardCrossesWrappedOnly ==
    isWordWiseSelection(mode_) =>
        \A c \in WordStarts :
            /\ ForwardFrom(c).line >= c.line
            /\ \A k \in (c.line + 1) .. ForwardFrom(c).line : wrapped_(k)


\* Every cell of c's line from column 0 to c is part of a word.
WordToLineStart(c) ==
    \A k \in 0 .. c.column : ~isWordDelimiterAt(Coordinate(c.line, k))

\* C34: a word-wise backward extension that reaches the start of a line
\* goes on to the previous line exactly if the line is wrapped: if it is, the
\* non-delimiter cells at the end of the previous line are taken in; if it is
\* not, the extension ends on column 0 of the line.
C34_BackwardAtLineStart ==
    isWordWiseSelection(mode_) =>
        \A c \in GridCoords :
            WordToLineStart(c) =>
                \E last \in {backwardLoop(c, c)} :
                    IF wrapped_(c.line)
                    THEN (/\ (c.line - 1) \in LineOffsets
                          /\ ~isWordDelimiterAt(Coordinate(c.line - 1, columnCount_ - 1)))
                         => last.line < c.line
                    ELSE last = Coordinate(c.line, 0)


\* The coordinates stretchedColumn is called with: the cells of the grid,
\* the two columns past the end of a row and the lines next to the grid.
StretchCoords ==
    {Coordinate(l, c) : l \in (0 - historyLineCount - 1) .. PageLines,
                        c \in 0 .. (Columns + 1)}

\* The columns from c to the end of its row that hold a non-empty cell.
NonEmptyFrom(c) ==
    {k \in c.column .. (Columns - 1) : ~empty(at(Coordinate(c.line, k)))}

\* What stretchedColumn(c) is to be.
Stretched(c) ==
    IF ~CellPresent(c) THEN c
    ELSE IF at(c).width > 1 THEN Coordinate(c.line, c.column + at(c).width - 1)
    ELSE IF ~empty(at(c)) THEN c
    ELSE IF NonEmptyFrom(c) = {} THEN Coordinate(c.line, columnCount_)
    ELSE LET k == CHOOSE k \in NonEmptyFrom(c) : \A j \in NonEmptyFrom(c) : k <= j
         IN  Coordinate(c.line, k + at(Coordinate(c.line, k)).width - 1)

\* C35: stretchedColumn(coord) stays on the line and does not move left: a
\* non-empty narrow cell maps to itself, a wide cell to its tail, an empty
\* cell to the first non-empty cell to its right (to its tail if it is wide)
\* or to the row end, a coordinate without a cell to itself.
C35_StretchedColumn ==
    \A c \in StretchCoords :
        /\ stretchedColumn(c) = Stretched(c)
        /\ stretchedColumn(c).line = c.line
        /\ stretchedColumn(c).column >= c.column

\* An empty cell is followed by a wide cell, and stretchedColumn of the
\* empty cell is the wide cell's tail.
C35_Witness ==
    \E c \in GridCoords :
        /\ empty(at(c))
        /\ \E k \in (c.column + 1) .. (Columns - 2) :
              /\ at(Coordinate(c.line, k)).width > 1
              /\ stretchedColumn(c) = Coordinate(c.line, k + 1)


\* A selector constructed on the same anchor and extended once to the
\* coordinate of the latest extend.
ExtendedOnce ==
    extend(Construct(mode_, totalRowCount_, start_), extendArg.line, extendArg.column)

\* C36: in FullLine, LinearWordWise and Rectangular mode, after any sequence
\* of extends `from` and `to` are those of a selector constructed on the
\* same anchor and extended once to the last coordinate.
C36_LastExtendDecides ==
    (mode_ \in {"FullLine", "LinearWordWise", "Rectangular"} /\ ExtendRecorded) =>
        \E s \in {ExtendedOnce} : from_ = s.from /\ to_ = s.to


\* C37: in every mode and every state, after construction and after any
\* sequence of extends, contains(anchor) is true.
C37_ContainsAnchor == contains(Self, start_)


\* The coordinates the loop in progress asks the cell accessor for in its
\* next iteration's delimiter test.
AccessorQueries ==
    CASE loop.pc = "extendSelectionBackward" -> extendSelectionBackwardQuery(loop)
      [] loop.pc = "extendSelectionForward" -> extendSelectionForwardQuery(loop)
      [] OTHER -> {}

\* A word-wise loop as the constructor or extend enters it on a cell of the
\* grid, with the grid's accessor and totalRowCount_.
WordLoopInGrid ==
    /\ loop.pc \in {"extendSelectionBackward", "extendSelectionForward"}
    /\ ~loop.done
    /\ ~loop.absent
    /\ loop.last = loop.current
    /\ InGrid(loop.current.line, loop.current.column)

\* C38: constructing or extending a selection whose anchor and extend
\* coordinates lie inside the grid asks the cell accessor only for
\* coordinates inside the grid.
C38_AccessorInGrid ==
    WordLoopInGrid => \A q \in AccessorQueries : InGrid(q.line, q.column)


\* C39: for a Linear or LinearWordWise selection whose anchor and extend
\* coordinates lie inside the grid, every range of selection() lies within
\* the columns 0 .. columnCount - 1.
C39_RangesWithinColumns ==
    (/\ mode_ \in {"Linear", "LinearWordWise"}
     /\ ExtendRecorded => InGrid(extendArg.line, extendArg.column)) =>
        \A r \in RangeSet(selection(Self)) :
            0 <= r.fromColumn /\ r.toColumn <= columnCount_ - 1


\* C40: after the copy assignment c = v every observable attribute of c is
\* that of v, whatever c held before, also when c had an extra block and v
\* has none.
C40_AssignCopies ==
    \A v \in SourceCells : Observable(assign(compactCell, v)) = Observable(v)

=============================================================================
